---- MODULE Spec2Model ----
(***************************************************************************)
(* Model of add_annotation.py: the annotation of differential-expression   *)
(* result tables of M. tuberculosis Erdman with the Mycobrowser functional *)
(* annotation of H37Rv.                                                    *)
(*                                                                         *)
(* A string is a sequence of tokens, a token being an atomic chunk of      *)
(* characters ("=", ";", " ", "simliar", "Rv0001", ...).  The literals the *)
(* code searches for are sequences of whole tokens and no other token      *)
(* holds a ';' or a '='.  A missing value (pandas NaN) is the value NaN.   *)
(* A cell of a table is a string or NaN.                                   *)
(***************************************************************************)
EXTENDS Integers, Sequences, FiniteSets, TLC

\* ------------------------------------------------------------------ bounds
MaxGffRows == 2
MaxFuncRows == 2
MaxRows == 2
MaxTables == 3

\* --------------------------------------------------------------- literals
NaN == <<"NaN">>

SEMI == ";"
EQ == "="

\* the two literals of lines 48-49
SIMLIAR_TO == <<"simliar", " ", "to", " ">>
OF_H37RV == <<" ", "of", " ", "M.", " ", "tuberculosis", " ", "H37Rv">>
\* the spelling of the GFF's Note field (and of the --gff help text, line 121)
SIMILAR_TO == <<"similar", " ", "to", " ">>

CDS == <<"CDS">>
LOCUS_TAG == <<"locus_tag">>
NOTE == <<"Note">>

\* the reference files written by download_annotations, the defaults of
\* --func_txt and --gff
REF_FUNC == <<"mycobrowser_functional_annotation", ".tsv">>
REF_GFF == <<"H37rv_Erdman_correspondance", ".gff">>

\* ------------------------------------------------------- string functions
\* str.split(sep) for a one-token separator: always at least one segment
RECURSIVE SplitFrom(_, _, _, _, _)
SplitFrom(s, sep, i, cur, acc) ==
    IF i > Len(s) THEN Append(acc, cur)
    ELSE IF s[i] = sep THEN SplitFrom(s, sep, i + 1, <<>>, Append(acc, cur))
    ELSE SplitFrom(s, sep, i + 1, Append(cur, s[i]), acc)

Split(s, sep) == SplitFrom(s, sep, 1, <<>>, <<>>)

\* does old occur in s at position i
OccursAt(s, old, i) ==
    /\ i + Len(old) - 1 <= Len(s)
    /\ SubSeq(s, i, i + Len(old) - 1) = old

\* str.replace(old, "", regex=False): every non-overlapping occurrence of
\* old, scanning from the left, is removed
RECURSIVE ReplaceFrom(_, _, _, _)
ReplaceFrom(s, old, i, acc) ==
    IF i > Len(s) THEN acc
    ELSE IF OccursAt(s, old, i) THEN ReplaceFrom(s, old, i + Len(old), acc)
    ELSE ReplaceFrom(s, old, i + 1, Append(acc, s[i]))

\* Series.str.replace: a missing value stays missing
StrReplace(s, old) == IF s = NaN THEN NaN ELSE ReplaceFrom(s, old, 1, <<>>)

\* ------------------------------------------------------------ GFF parsing
\* the segments of an attributes string that raise IndexError at x.split("=")[1]
BadSegments(attributes) ==
    {k \in 1..Len(Split(attributes, SEMI)) :
        Len(Split(Split(attributes, SEMI)[k], EQ)) < 2}

\* a variant of attributes_to_json that skips a segment without '='
attributes_to_json_lenient(attributes) ==
    LET segs == Split(attributes, SEMI)
        good == {k \in 1..Len(segs) : Len(Split(segs[k], EQ)) >= 2}
        keys == {Split(segs[k], EQ)[1] : k \in good}
        last(key) == CHOOSE k \in good :
                        /\ Split(segs[k], EQ)[1] = key
                        /\ \A j \in good : Split(segs[j], EQ)[1] = key => j <= k
    IN [raised |-> attributes = NaN,
        json |-> [key \in keys |-> Split(segs[last(key)], EQ)[2]]]

\* attributes_to_json: a dict comprehension over the ';'-segments, the key
\* the piece before the first '=', the value the piece between the first
\* and the second '='; a later segment overrides an earlier one with the
\* same key.  A missing attributes field (a float) has no split.
attributes_to_json(attributes) ==
    IF attributes = NaN \/ BadSegments(attributes) # {}
    THEN [raised |-> TRUE, json |-> <<>>]
    ELSE LET segs == Split(attributes, SEMI)
             keys == {Split(segs[k], EQ)[1] : k \in 1..Len(segs)}
             last(key) == CHOOSE k \in 1..Len(segs) :
                             /\ Split(segs[k], EQ)[1] = key
                             /\ \A j \in 1..Len(segs) :
                                   Split(segs[j], EQ)[1] = key => j <= k
         IN [raised |-> FALSE,
             json |-> [key \in keys |-> Split(segs[last(key)], EQ)[2]]]

\* gff_to_df: the nine named columns (of which only type is read
\* afterwards) plus one column per attribute key seen in the file.  A row
\* of the frame is [type, json]; columns holds the attribute keys, and a row
\* lacking a key holds NaN there (Cell).  Any row whose attributes raise
\* makes the whole parse raise.
gff_to_df(gff) ==
    LET parsed == [k \in 1..Len(gff.rows) |-> attributes_to_json(gff.rows[k].attributes)]
    IN IF \E k \in 1..Len(gff.rows) : parsed[k].raised
       THEN [raised |-> TRUE, columns |-> {}, rows |-> <<>>]
       ELSE [raised |-> FALSE,
             columns |-> UNION {DOMAIN parsed[k].json : k \in 1..Len(gff.rows)},
             rows |-> [k \in 1..Len(gff.rows) |->
                         [type |-> gff.rows[k].type, json |-> parsed[k].json]]]

\* the cell of an attribute column (pd.json_normalize, pd.concat)
Cell(row, key) == IF key \in DOMAIN row.json THEN row.json[key] ELSE NaN

\* ------------------------------------------------------------ data frames
\* A frame is [columns, rows]; a row is a function from the frame's column
\* names to cells.  The frames merged here share no column name but the
\* join key, so pandas adds no _x/_y suffix.
RowsWhere(rows, col, v) == SelectSeq(rows, LAMBDA r : r[col] = v)

Joined(l, r) ==
    [c \in DOMAIN l \cup DOMAIN r |-> IF c \in DOMAIN l THEN l[c] ELSE r[c]]

Unmatched(l, columns) ==
    [c \in DOMAIN l \cup columns |-> IF c \in DOMAIN l THEN l[c] ELSE NaN]

RECURSIVE MergeRows(_, _, _, _, _)
MergeRows(left, right, left_on, right_on, how) ==
    IF left = <<>> THEN <<>>
    ELSE LET l == Head(left)
             m == RowsWhere(right.rows, right_on, l[left_on])
             out == IF m # <<>> THEN [k \in 1..Len(m) |-> Joined(l, m[k])]
                    ELSE IF how = "left" THEN <<Unmatched(l, right.columns)>>
                    ELSE <<>>
         IN out \o MergeRows(Tail(left), right, left_on, right_on, how)

\* a variant of Merge that ignores how and drops the rows without match
MergeInnerOnly(left, right, left_on, right_on, how) ==
    [columns |-> left.columns \cup right.columns,
     rows |-> MergeRows(left.rows, right, left_on, right_on, "inner")]

\* pd.merge(left, right, left_on=, right_on=, how=): the rows of left in
\* order, each paired with every row of right holding the same key (a
\* missing key matches a missing key); how="left" keeps a row of left
\* without a match, the columns of right missing
Merge(left, right, left_on, right_on, how) ==
    [columns |-> left.columns \cup right.columns,
     rows |-> MergeRows(left.rows, right, left_on, right_on, how)]

\* a variant of Drop that keeps the columns
DropNothing(frame, cols) == frame

\* DataFrame.drop(columns, axis=1)
Drop(frame, cols) ==
    [columns |-> frame.columns \ cols,
     rows |-> [k \in 1..Len(frame.rows) |->
                 [c \in frame.columns \ cols |-> frame.rows[k][c]]]]

\* the ten columns of lines 64-75, in order
OUT_COLS ==
    <<"Id", "Name", "old_locus_tag", "Function", "Functional_Category",
      "Product", "baseMean", "log2FoldChange", "pvalue", "padj">>

OutCols == {OUT_COLS[k] : k \in 1..Len(OUT_COLS)}

\* df.loc[:, [...]]
Loc(frame, cols) ==
    [columns |-> cols,
     rows |-> [k \in 1..Len(frame.rows) |-> [c \in cols |-> frame.rows[k][c]]]]

\* drop_duplicates: of equal rows the first is kept
RECURSIVE DropDuplicateRows(_, _)
DropDuplicateRows(rows, seen) ==
    IF rows = <<>> THEN <<>>
    ELSE IF Head(rows) \in seen THEN DropDuplicateRows(Tail(rows), seen)
    ELSE <<Head(rows)>> \o DropDuplicateRows(Tail(rows), seen \cup {Head(rows)})

drop_duplicates(frame) ==
    [columns |-> frame.columns, rows |-> DropDuplicateRows(frame.rows, {})]

\* ---------------------------------------------------------- correspondence
\* a variant of Correspondence that removes "similar to "
CorrespondenceFixed(df) ==
    LET cds == SelectSeq(df.rows, LAMBDA r : r.type = CDS)
    IN [columns |-> {"locus_tag", "Locus"},
        rows |-> [k \in 1..Len(cds) |->
                    [locus_tag |-> Cell(cds[k], LOCUS_TAG),
                     Locus |-> StrReplace(StrReplace(Cell(cds[k], NOTE), SIMILAR_TO),
                                          OF_H37RV)]]]

\* lines 47-51: the CDS rows, projected to (locus_tag, Note), the two
\* literals removed from Note, Note renamed Locus
Correspondence(df) ==
    LET cds == SelectSeq(df.rows, LAMBDA r : r.type = CDS)
    IN [columns |-> {"locus_tag", "Locus"},
        rows |-> [k \in 1..Len(cds) |->
                    [locus_tag |-> Cell(cds[k], LOCUS_TAG),
                     Locus |-> StrReplace(StrReplace(Cell(cds[k], NOTE), SIMLIAR_TO),
                                          OF_H37RV)]]]

\* df.isna().sum().Locus of line 53
NoCorrespondence(corr) == Len(RowsWhere(corr.rows, "Locus", NaN))

\* ------------------------------------------------------------------ writer
\* Path(table_to_annot).with_suffix(suffix): the last suffix of the name, if
\* it has one, is replaced; a path is <<stem, suffix, ...>>
with_suffix(path, suffix) ==
    IF Len(path) > 1 THEN SubSeq(path, 1, Len(path) - 1) \o <<suffix>>
    ELSE path \o <<suffix>>

\* lines 89-101: the background color of each of the eleven categories
color_code ==
    (<<"virulence, detoxification, adaptation">> :> "#b2df8a") @@
    (<<"information pathways">> :> "#e31a1c") @@
    (<<"cell wall and cell processes">> :> "#33a02c") @@
    (<<"stable RNAs">> :> "#1f78b4") @@
    (<<"insertion seqs and phages">> :> "#a6cee3") @@
    (<<"PE/PPE">> :> "#6a3d9a") @@
    (<<"intermediary metabolism and respiration">> :> "#ff7f00") @@
    (<<"unknown">> :> "#808080") @@
    (<<"regulatory proteins">> :> "#cab2d6") @@
    (<<"conserved hypotheticals">> :> "#fb9a99") @@
    (<<"lipid metabolism">> :> "#b15928")

\* lines 103-107: one rule per category over the range $A$1:$J$<shape>,
\* sheet rows 1..shape and columns 1..10, whose formula compares the cell of
\* column E in the rule's row with the category
conditional_formats(shape) ==
    {[first_row |-> 1, last_row |-> shape, first_col |-> 1, last_col |-> 10,
      criteria |-> k, format |-> color_code[k]] : k \in DOMAIN color_code}

\* lines 82-108: the sheet written by to_excel(index=False), the header in
\* sheet row 1 and row k of the frame in sheet row k + 1
Workbook(df) ==
    [kind |-> "xlsx", header |-> OUT_COLS, rows |-> df.rows,
     formats |-> conditional_formats(Len(df.rows))]

\* the text of column E in a sheet row; a missing value is an empty cell
ColumnE(sheet, r) ==
    IF r = 1 THEN <<sheet.header[5]>> ELSE sheet.rows[r - 1][OUT_COLS[5]]

\* the background colors a spreadsheet program shows in a sheet row
RowColors(sheet, r) ==
    {f.format : f \in {g \in sheet.formats :
        /\ g.first_row <= r
        /\ r <= g.last_row
        /\ ColumnE(sheet, r) = g.criteria}}

\* -------------------------------------------------------- join_func_and_gff
NoFrame == [columns |-> {}, rows |-> <<>>]

Raise(fn, ln, gff_df, corr, printed) ==
    [raised |-> TRUE, func |-> fn, line |-> ln, gff_df |-> gff_df, corr |-> corr,
     printed |-> printed, outfile |-> <<>>, sheet |-> [kind |-> "absent"]]

\* One call of join_func_and_gff against the files on disk: either it raises
\* (the function and the line that raise, and what was printed before), or
\* it returns having written sheet to outfile.  A file that is absent or
\* that holds the body of an error response cannot be read as a table.
join_func_and_gff(disk, func_txt, gff, table_to_annot, id_col, readonly) ==
    LET func_df == disk[func_txt]
        gff_df == gff_to_df(disk[gff])
        corr == Correspondence(gff_df)
        printed == <<NoCorrespondence(corr)>>
        table == disk[table_to_annot]
        df_to_annot == Drop(table, {"Name"})
        merged == Merge(func_df, corr, "Locus", "Locus", "inner")
        joined == Merge(df_to_annot, merged, id_col, "locus_tag", "left")
        df == drop_duplicates(Loc(joined, OutCols))
        outfile == with_suffix(table_to_annot, ".ann.xlsx")
    IN IF func_df.kind # "func"
         THEN Raise("join_func_and_gff", 41, NoFrame, NoFrame, <<>>)
       ELSE IF disk[gff].kind # "gff"
         THEN Raise("gff_to_df", 13, NoFrame, NoFrame, <<>>)
       ELSE IF gff_df.raised
         THEN Raise("gff_to_df", 20, NoFrame, NoFrame, <<>>)
       ELSE IF ~ ({LOCUS_TAG, NOTE} \subseteq gff_df.columns)
         THEN Raise("join_func_and_gff", 47, gff_df, NoFrame, <<>>)
       ELSE IF table.kind # "table" \/ "Name" \notin table.columns
         THEN Raise("join_func_and_gff", 56, gff_df, corr, printed)
       ELSE IF "Locus" \notin func_df.columns
         THEN Raise("join_func_and_gff", 59, gff_df, corr, printed)
       ELSE IF id_col \notin df_to_annot.columns
         THEN Raise("join_func_and_gff", 60, gff_df, corr, printed)
       ELSE IF ~ (OutCols \subseteq joined.columns)
         THEN Raise("join_func_and_gff", 62, gff_df, corr, printed)
       ELSE IF outfile \in readonly
         THEN Raise("join_func_and_gff", 82, gff_df, corr, printed)
       ELSE [raised |-> FALSE, func |-> "", line |-> 0, gff_df |-> gff_df,
             corr |-> corr, printed |-> printed, outfile |-> outfile,
             sheet |-> Workbook(df)]

\* ------------------------------------------------------------------- state
VARIABLES
    tables_to_annot,  \* the TABLES_TO_ANNOT arguments, in order
    id_col,           \* the ID_COL argument
    func_txt,         \* the --func_txt option
    gff,              \* the --gff option
    net,              \* what the two URLs answer
    readonly,         \* the paths that cannot be opened for writing
    disk,             \* path -> contents of the file
    pc,               \* "download", "loop", "done" (exit 0), "aborted"
    t,                \* index in tables_to_annot of the next table
    calls,            \* the tables join_func_and_gff was called with, in order
    writes,           \* the paths written, in order
    report,           \* the counts printed at line 53, in order
    last_gff,         \* the frame gff_to_df returned to the last call
    corr_df,          \* the correspondence frame of the last call
    exc               \* the function and line that raised

vars ==
    <<tables_to_annot, id_col, func_txt, gff, net, readonly, disk, pc, t,
      calls, writes, report, last_gff, corr_df, exc>>

inputs == <<tables_to_annot, id_col, func_txt, gff, net, readonly>>

NoExc == [func |-> "", line |-> 0]

\* ------------------------------------------------------------------ inputs
ERDMAN_0001 == <<"ERDMAN_0001">>
ERDMAN_0002 == <<"ERDMAN_0002">>
RV0001 == <<"Rv0001">>
RV0002 == <<"Rv0002">>

Attr(key, value) == key \o <<EQ>> \o value
Attrs(tag, note) == Attr(LOCUS_TAG, tag) \o <<SEMI>> \o Attr(NOTE, note)

SeqsUpTo(S, n) == UNION {[1..k -> S] : k \in 1..n}

\* Note fields: the two spellings, free text, a bare locus, a text that
\* holds the first literal and only the beginning of the second, a value
\* with a '=' in it
Notes ==
    {SIMLIAR_TO \o RV0001 \o OF_H37RV,
     SIMILAR_TO \o RV0001 \o OF_H37RV,
     <<"hypothetical", " ", "protein">>,
     RV0002,
     SIMLIAR_TO \o RV0002 \o <<" ", "of", " ", "M.", " ", "bovis">>,
     <<"EC", EQ, "2.7.7.7", EQ, "dnaN">>}

GffAttributes ==
    {Attrs(ERDMAN_0001, n) : n \in Notes} \cup
    {Attr(LOCUS_TAG, ERDMAN_0002),
     Attr(NOTE, SIMLIAR_TO \o RV0002 \o OF_H37RV),
     Attr(LOCUS_TAG, ERDMAN_0002) \o <<SEMI>>,
     Attr(LOCUS_TAG, ERDMAN_0002) \o <<SEMI, "pseudo">>,
     NaN}

GffRows ==
    {[type |-> CDS, attributes |-> a] : a \in GffAttributes} \cup
    {[type |-> <<"gene">>, attributes |-> Attrs(ERDMAN_0002, RV0002)]}

GffFile(rows) == [kind |-> "gff", rows |-> rows]

GffFiles == {GffFile(rows) : rows \in SeqsUpTo(GffRows, MaxGffRows)}

\* three correspondence files for the runs that vary the tables
GffSimliar ==
    GffFile(<<[type |-> CDS, attributes |-> Attrs(ERDMAN_0001, SIMLIAR_TO \o RV0001 \o OF_H37RV)],
              [type |-> CDS, attributes |-> Attrs(ERDMAN_0002, SIMLIAR_TO \o RV0002 \o OF_H37RV)]>>)
GffSimilar ==
    GffFile(<<[type |-> CDS, attributes |-> Attrs(ERDMAN_0001, SIMILAR_TO \o RV0001 \o OF_H37RV)]>>)
\* a CDS row without locus_tag, the column coming from a gene row
GffNoTag ==
    GffFile(<<[type |-> CDS, attributes |-> Attr(NOTE, RV0002)],
              [type |-> <<"gene">>, attributes |-> Attrs(ERDMAN_0002, RV0002)]>>)
GffMalformed ==
    GffFile(<<[type |-> CDS, attributes |-> Attrs(ERDMAN_0001, SIMLIAR_TO \o RV0001 \o OF_H37RV)],
              [type |-> CDS, attributes |-> Attr(LOCUS_TAG, ERDMAN_0002) \o <<SEMI>>]>>)

FuncCols == {"Locus", "Name", "Function", "Functional_Category", "Product"}

FuncRow(locus, name, function, category, product) ==
    [Locus |-> locus, Name |-> <<name>>, Function |-> <<function>>,
     Functional_Category |-> <<category>>, Product |-> <<product>>]

FuncRows ==
    {FuncRow(RV0001, "dnaA", "F1", "unknown", "P1"),
     FuncRow(RV0002, "dnaN", "F2", "lipid metabolism", "P2"),
     FuncRow(RV0001, "dnaA", "F3", "not a category", "P3")}

FuncFile(rows) == [kind |-> "func", columns |-> FuncCols, rows |-> rows]

FuncFiles == {FuncFile(rows) : rows \in SeqsUpTo(FuncRows, MaxFuncRows)}

FuncBoth ==
    FuncFile(<<FuncRow(RV0001, "dnaA", "F1", "unknown", "P1"),
               FuncRow(RV0002, "dnaN", "F2", "lipid metabolism", "P2")>>)

\* the functional annotation of the end-to-end scenario: no Name column
FuncScenario ==
    [kind |-> "func",
     columns |-> {"Locus", "Function", "Functional_Category", "Product"},
     rows |-> <<[Locus |-> RV0001, Function |-> <<"F1">>,
                 Functional_Category |-> <<"unknown">>, Product |-> <<"P1">>]>>]

TableCols ==
    {"Id", "Name", "ERDMAN_ID", "old_locus_tag", "baseMean", "log2FoldChange",
     "pvalue", "padj"}

ResultRow(id, erdman, old) ==
    [Id |-> <<id>>, Name |-> <<"N">>, ERDMAN_ID |-> erdman, old_locus_tag |-> <<old>>,
     baseMean |-> <<"10">>, log2FoldChange |-> <<"1.5">>, pvalue |-> <<"0.01">>,
     padj |-> <<"0.02">>]

ResultRows ==
    {ResultRow("1", ERDMAN_0001, "OLD1"),
     ResultRow("2", ERDMAN_0002, "OLD2"),
     ResultRow("3", NaN, "OLD3")}

TableFile(rows) == [kind |-> "table", columns |-> TableCols, rows |-> rows]

ResultTables == {TableFile(rows) : rows \in SeqsUpTo(ResultRows, MaxRows)}

TableScenario == TableFile(<<ResultRow("1", ERDMAN_0001, "OLD1")>>)

\* a result table without the Name column
TableNoName ==
    [kind |-> "table", columns |-> TableCols \ {"Name"},
     rows |-> <<[c \in TableCols \ {"Name"} |-> ResultRow("1", ERDMAN_0001, "OLD1")[c]]>>]

\* the body of a response whose status is not a success
ErrorBody == [kind |-> "html"]
Absent == [kind |-> "absent"]

T1 == <<"t1", ".csv">>
T2 == <<"t2">>
T3 == <<"t3", ".tsv">>
USER_FUNC == <<"func", ".txt">>
USER_GFF == <<"erdman", ".gff">>
XLSX == ".ann.xlsx"

Tables == {T1, T2, T3}
Outfiles == {with_suffix(p, XLSX) : p \in Tables}
Paths == {REF_FUNC, REF_GFF, USER_FUNC, USER_GFF} \cup Tables \cup Outfiles

Response(code, content) == [reachable |-> TRUE, status_code |-> code, content |-> content]
Unreachable == [reachable |-> FALSE, status_code |-> 0, content |-> Absent]

Responses(content) == {Response(200, content), Response(404, ErrorBody), Unreachable}

\* the disk before the run: the user's files, no reference file, no output
Disk(user_func, user_gff, t1, t2, t3) ==
    [p \in Paths |->
        IF p = USER_FUNC THEN user_func
        ELSE IF p = USER_GFF THEN user_gff
        ELSE IF p = T1 THEN t1
        ELSE IF p = T2 THEN t2
        ELSE IF p = T3 THEN t3
        ELSE Absent]

\* runs that vary the correspondence file
GffRuns ==
    {[tables_to_annot |-> <<T1>>, id_col |-> "ERDMAN_ID",
      func_txt |-> REF_FUNC, gff |-> REF_GFF,
      net |-> [func |-> Response(200, FuncBoth), corr |-> Response(200, g)],
      readonly |-> {},
      disk |-> Disk(Absent, Absent, TableFile(<<ResultRow("1", ERDMAN_0001, "OLD1"),
                                               ResultRow("2", ERDMAN_0002, "OLD2")>>),
                    Absent, Absent)] : g \in GffFiles}

\* runs that vary the functional annotation and the result table
JoinRuns ==
    {[tables_to_annot |-> <<T1>>, id_col |-> "ERDMAN_ID",
      func_txt |-> REF_FUNC, gff |-> REF_GFF,
      net |-> [func |-> Response(200, f), corr |-> Response(200, g)],
      readonly |-> {},
      disk |-> Disk(Absent, Absent, tb, Absent, Absent)] :
        f \in FuncFiles,
        g \in {GffSimliar, GffNoTag},
        tb \in ResultTables}

\* runs on the functional annotation and the result table of the end-to-end
\* scenario, with either spelling of the Note
ScenarioRuns ==
    {[tables_to_annot |-> <<T1>>, id_col |-> "ERDMAN_ID",
      func_txt |-> REF_FUNC, gff |-> REF_GFF,
      net |-> [func |-> Response(200, f), corr |-> Response(200, g)],
      readonly |-> {},
      disk |-> Disk(Absent, Absent, TableScenario, Absent, Absent)] :
        f \in {FuncScenario, FuncBoth},
        g \in {GffSimilar, GffSimliar}}

\* runs that vary the network, the options and the list of tables
MainRuns ==
    {[tables_to_annot |-> ts, id_col |-> "ERDMAN_ID",
      func_txt |-> o[1], gff |-> o[2],
      net |-> [func |-> rf, corr |-> rc],
      readonly |-> ro,
      disk |-> Disk(FuncBoth, GffSimliar, TableScenario,
                    TableFile(<<ResultRow("2", ERDMAN_0002, "OLD2")>>), TableNoName)] :
        ts \in {<<>>} \cup SeqsUpTo(Tables, MaxTables),
        o \in {<<REF_FUNC, REF_GFF>>, <<USER_FUNC, USER_GFF>>},
        rf \in Responses(FuncBoth),
        rc \in Responses(GffSimliar),
        ro \in {{}, {with_suffix(T2, XLSX)}}}

\* runs that vary the ID_COL argument and the user's reference files
OptionRuns ==
    {[tables_to_annot |-> ts, id_col |-> ic,
      func_txt |-> USER_FUNC, gff |-> USER_GFF,
      net |-> [func |-> Response(200, FuncBoth), corr |-> Response(200, GffSimliar)],
      readonly |-> {},
      disk |-> Disk(uf, ug, TableScenario,
                    TableFile(<<ResultRow("2", ERDMAN_0002, "OLD2")>>), TableNoName)] :
        ts \in {<<>>} \cup SeqsUpTo(Tables, MaxTables),
        ic \in {"ERDMAN_ID", "GeneID"},
        uf \in {FuncBoth, Absent},
        ug \in {GffSimliar, GffMalformed}}

Runs == GffRuns \cup JoinRuns \cup ScenarioRuns \cup MainRuns \cup OptionRuns

\* ----------------------------------------------------------------- actions
Init ==
    \E run \in Runs :
        /\ tables_to_annot = run.tables_to_annot
        /\ id_col = run.id_col
        /\ func_txt = run.func_txt
        /\ gff = run.gff
        /\ net = run.net
        /\ readonly = run.readonly
        /\ disk = run.disk
        /\ pc = "download"
        /\ t = 1
        /\ calls = <<>>
        /\ writes = <<>>
        /\ report = <<>>
        /\ last_gff = NoFrame
        /\ corr_df = NoFrame
        /\ exc = NoExc

\* download_annotations, both requests answered: whatever the status of a
\* response, its body is written to the reference file
Download ==
    /\ pc = "download"
    /\ net.func.reachable /\ net.corr.reachable
    /\ disk' = [disk EXCEPT ![REF_FUNC] = net.func.content,
                            ![REF_GFF] = net.corr.content]
    /\ writes' = writes \o <<REF_FUNC, REF_GFF>>
    /\ pc' = "loop"
    /\ UNCHANGED <<inputs, t, calls, report, last_gff, corr_df, exc>>

\* download_annotations, a request raising ConnectionError: both requests
\* come before both writes
DownloadRaise ==
    /\ pc = "download"
    /\ ~ (net.func.reachable /\ net.corr.reachable)
    /\ pc' = "aborted"
    /\ exc' = [func |-> "download_annotations",
               line |-> IF net.func.reachable THEN 31 ELSE 28]
    /\ UNCHANGED <<inputs, disk, t, calls, writes, report, last_gff, corr_df>>

\* one iteration of the loop of main whose call returns
Annotate ==
    /\ pc = "loop"
    /\ t <= Len(tables_to_annot)
    /\ LET r == join_func_and_gff(disk, func_txt, gff, tables_to_annot[t], id_col, readonly)
       IN /\ ~ r.raised
          /\ disk' = [disk EXCEPT ![r.outfile] = r.sheet]
          /\ writes' = Append(writes, r.outfile)
          /\ report' = report \o r.printed
          /\ last_gff' = r.gff_df
          /\ corr_df' = r.corr
    /\ calls' = Append(calls, tables_to_annot[t])
    /\ t' = t + 1
    /\ UNCHANGED <<inputs, pc, exc>>

\* a variant of AnnotateRaise in which the loop goes on to the next table
AnnotateRaiseContinue ==
    /\ pc = "loop"
    /\ t <= Len(tables_to_annot)
    /\ LET r == join_func_and_gff(disk, func_txt, gff, tables_to_annot[t], id_col, readonly)
       IN /\ r.raised
          /\ report' = report \o r.printed
          /\ last_gff' = r.gff_df
          /\ corr_df' = r.corr
          /\ exc' = [func |-> r.func, line |-> r.line]
    /\ calls' = Append(calls, tables_to_annot[t])
    /\ t' = t + 1
    /\ UNCHANGED <<inputs, disk, pc, writes>>

\* one iteration of the loop of main whose call raises: nothing catches the
\* exception and the process exits
AnnotateRaise ==
    /\ pc = "loop"
    /\ t <= Len(tables_to_annot)
    /\ LET r == join_func_and_gff(disk, func_txt, gff, tables_to_annot[t], id_col, readonly)
       IN /\ r.raised
          /\ report' = report \o r.printed
          /\ last_gff' = r.gff_df
          /\ corr_df' = r.corr
          /\ exc' = [func |-> r.func, line |-> r.line]
    /\ calls' = Append(calls, tables_to_annot[t])
    /\ pc' = "aborted"
    /\ UNCHANGED <<inputs, disk, t, writes>>

\* the loop of main is exhausted
Finish ==
    /\ pc = "loop"
    /\ t > Len(tables_to_annot)
    /\ pc' = "done"
    /\ UNCHANGED <<inputs, disk, t, calls, writes, report, last_gff, corr_df, exc>>

Next == Download \/ DownloadRaise \/ Annotate \/ AnnotateRaise \/ Finish

Spec == Init /\ [][Next]_vars

\* the control state stays within the loop of main
TypeOK ==
    /\ pc \in {"download", "loop", "done", "aborted"}
    /\ t \in 1..(Len(tables_to_annot) + 1)
    /\ Len(calls) <= Len(tables_to_annot)

\* ------------------------------------------------------------- properties
Range(f) == {f[k] : k \in DOMAIN f}

Contains(s, sub) == \E i \in 1..Len(s) : OccursAt(s, sub, i)

\* the output path and the output file of the k-th table
Outfile(k) == with_suffix(tables_to_annot[k], XLSX)
Sheet(k) == disk[Outfile(k)]

\* the calls of join_func_and_gff that returned
Returned == 1..(t - 1)

\* the functional annotation inner-joined with the correspondence
Annotation == Merge(disk[func_txt], corr_df, "Locus", "Locus", "inner")

HasMatch(row) ==
    \E m \in 1..Len(Annotation.rows) : Annotation.rows[m]["locus_tag"] = row[id_col]

\* the CDS rows of the parsed GFF, in the order of the correspondence frame
CdsRows == SelectSeq(last_gff.rows, LAMBDA r : r.type = CDS)

RvIds == {RV0001, RV0002}

\* C1: every row of a result table that join_func_and_gff annotated has a
\* row with the same Id in the spreadsheet written for that table, whether
\* or not its ID matches a locus_tag of the annotation.
LeftJoinTotality ==
    \A k \in Returned :
        /\ Sheet(k).kind = "xlsx"
        /\ \A i \in 1..Len(disk[tables_to_annot[k]].rows) :
              \E j \in 1..Len(Sheet(k).rows) :
                  Sheet(k).rows[j]["Id"] = disk[tables_to_annot[k]].rows[i]["Id"]

LeftJoinTotalityWitness ==
    /\ t = 2
    /\ Len(disk[tables_to_annot[1]].rows) = 2
    /\ HasMatch(disk[tables_to_annot[1]].rows[1])
    /\ ~ HasMatch(disk[tables_to_annot[1]].rows[2])
    /\ Len(Sheet(1).rows) >= 2

\* C2: a CDS row whose Note is "similar to RvXXXX of M. tuberculosis H37Rv"
\* gets the Locus "RvXXXX", and so joins with the functional-annotation
\* entries of that Locus.
SimilarToIsStripped ==
    corr_df.columns # {} =>
        \A k \in 1..Len(CdsRows) : \A x \in RvIds :
            Cell(CdsRows[k], NOTE) = SIMILAR_TO \o x \o OF_H37RV =>
                /\ corr_df.rows[k]["Locus"] = x
                /\ \A f \in Range(disk[func_txt].rows) :
                      f["Locus"] = x =>
                          \E m \in 1..Len(Annotation.rows) :
                              /\ Annotation.rows[m]["Locus"] = x
                              /\ Annotation.rows[m]["locus_tag"] = Cell(CdsRows[k], LOCUS_TAG)

\* C3: for every CDS row, a Note "simliar to RvXXXX of M. tuberculosis
\* H37Rv" gives the Locus "RvXXXX", a Note holding neither literal gives
\* the Note itself, a missing Note gives a missing Locus, and the count
\* printed is the number of CDS rows with a missing Note.
CorrespondenceCleaning ==
    corr_df.columns # {} =>
        /\ Len(corr_df.rows) = Len(CdsRows)
        /\ \A k \in 1..Len(CdsRows) :
              LET note == Cell(CdsRows[k], NOTE)
                  locus == corr_df.rows[k]["Locus"]
              IN /\ \A x \in RvIds :
                        note = SIMLIAR_TO \o x \o OF_H37RV => locus = x
                 /\ (note # NaN /\ ~ Contains(note, SIMLIAR_TO) /\ ~ Contains(note, OF_H37RV))
                        => locus = note
                 /\ note = NaN => locus = NaN
        /\ report # <<>>
        /\ report[Len(report)] =
              Cardinality({k \in 1..Len(CdsRows) : Cell(CdsRows[k], NOTE) = NaN})

CorrespondenceCleaningWitness ==
    /\ corr_df.columns # {}
    /\ Len(CdsRows) = 2
    /\ Cell(CdsRows[1], NOTE) = SIMLIAR_TO \o RV0001 \o OF_H37RV
    /\ Cell(CdsRows[2], NOTE) = NaN
    /\ report = <<1>>

\* the position of the first '=' of a segment
FirstEq(seg) == CHOOSE i \in 1..Len(seg) : seg[i] = EQ /\ \A j \in 1..(i - 1) : seg[j] # EQ

\* C4: a segment "k=v" whose v holds a '=' gives the key k the whole of v.
ValueKeptInFull ==
    last_gff.rows # <<>> =>
        \A k \in 1..Len(last_gff.rows) :
            \A seg \in Range(Split(disk[gff].rows[k].attributes, SEMI)) :
                Cardinality({i \in 1..Len(seg) : seg[i] = EQ}) >= 2 =>
                    LET key == SubSeq(seg, 1, FirstEq(seg) - 1)
                    IN /\ key \in DOMAIN last_gff.rows[k].json
                       /\ last_gff.rows[k].json[key] = SubSeq(seg, FirstEq(seg) + 1, Len(seg))

\* C5: in every spreadsheet written, every data row (sheet rows 2..n+1)
\* whose Functional_Category is one of the eleven labels has that label's
\* background color, and every other data row has none.
EveryDataRowColored ==
    \A p \in Outfiles :
        disk[p].kind = "xlsx" =>
            \A r \in 2..(Len(disk[p].rows) + 1) :
                IF ColumnE(disk[p], r) \in DOMAIN color_code
                THEN RowColors(disk[p], r) = {color_code[ColumnE(disk[p], r)]}
                ELSE RowColors(disk[p], r) = {}

FetchFailed(response) == ~ response.reachable \/ response.status_code # 200

\* C6: once download_annotations is over, a request that failed or was
\* answered with a non-success status has aborted the run inside
\* download_annotations: its body is not written, join_func_and_gff is not
\* called and no spreadsheet exists.
FailedFetchIsFatal ==
    (pc # "download" /\ (FetchFailed(net.func) \/ FetchFailed(net.corr))) =>
        /\ pc = "aborted"
        /\ exc.func = "download_annotations"
        /\ FetchFailed(net.func) => REF_FUNC \notin Range(writes)
        /\ FetchFailed(net.corr) => REF_GFF \notin Range(writes)
        /\ calls = <<>>
        /\ \A p \in Outfiles : disk[p].kind # "xlsx"

\* what has been written once the first n calls have returned
WritesAfter(n) == <<REF_FUNC, REF_GFF>> \o [k \in 1..n |-> Outfile(k)]

\* C7: the download comes first, the calls follow the order of the
\* arguments, every call that returned has left its spreadsheet on disk; the
\* first call to raise ends the run, the spreadsheets of the tables before
\* it written and no later call made; with no call raising the run ends
\* successfully with all the spreadsheets written in order.
OrderedNoRollback ==
    /\ pc = "download" => calls = <<>> /\ writes = <<>>
    /\ calls = SubSeq(tables_to_annot, 1, Len(calls))
    /\ \A k \in Returned : Sheet(k).kind = "xlsx"
    /\ pc = "loop" => Len(calls) = t - 1 /\ writes = WritesAfter(t - 1) /\ exc = NoExc
    /\ (pc = "aborted" /\ exc.func # "download_annotations") =>
          /\ Len(calls) = t
          /\ writes = WritesAfter(t - 1)
    /\ pc = "done" =>
          /\ exc = NoExc
          /\ calls = tables_to_annot
          /\ writes = WritesAfter(Len(tables_to_annot))

OrderedNoRollbackWitness ==
    /\ pc = "aborted"
    /\ Len(tables_to_annot) = 3
    /\ Len(calls) = 2
    /\ Sheet(1).kind = "xlsx"
    /\ Sheet(2).kind = "absent"
    /\ Sheet(3).kind = "absent"

\* the run of the end-to-end scenario
Scenario ==
    /\ net.func = Response(200, FuncScenario)
    /\ net.corr = Response(200, GffSimilar)
    /\ func_txt = REF_FUNC /\ gff = REF_GFF
    /\ tables_to_annot = <<T1>>
    /\ disk[T1] = TableScenario
    /\ id_col = "ERDMAN_ID"

ScenarioRow ==
    [Id |-> <<"1">>, Name |-> <<"N">>, old_locus_tag |-> <<"OLD1">>,
     Function |-> <<"F1">>, Functional_Category |-> <<"unknown">>,
     Product |-> <<"P1">>, baseMean |-> <<"10">>, log2FoldChange |-> <<"1.5">>,
     pvalue |-> <<"0.01">>, padj |-> <<"0.02">>]

\* C8: in the end-to-end scenario the call returns without error and the
\* spreadsheet holds exactly the one row of the scenario, colored gray.
EndToEndScenario ==
    (Scenario /\ calls # <<>>) =>
        /\ exc = NoExc
        /\ Sheet(1).kind = "xlsx"
        /\ Sheet(1).rows = <<ScenarioRow>>
        /\ RowColors(Sheet(1), 2) = {"#808080"}

\* C9: a row of an annotated result table whose ID matches no locus_tag of
\* the annotation is in the spreadsheet with its own Id, baseMean,
\* log2FoldChange, pvalue and padj and with Name, Function,
\* Functional_Category and Product missing.
UnmatchedRowsCarryNulls ==
    \A k \in Returned :
        \A row \in Range(disk[tables_to_annot[k]].rows) :
            ~ HasMatch(row) =>
                \E out \in Range(Sheet(k).rows) :
                    /\ \A c \in {"Id", "baseMean", "log2FoldChange", "pvalue", "padj"} :
                          out[c] = row[c]
                    /\ \A c \in {"Name", "Function", "Functional_Category", "Product"} :
                          out[c] = NaN

UnmatchedRowsCarryNullsWitness ==
    /\ t = 2
    /\ \E row \in Range(disk[tables_to_annot[1]].rows) :
          /\ ~ HasMatch(row)
          /\ row["Name"] # NaN
          /\ row[id_col] # NaN
    /\ Annotation.rows # <<>>

\* a GFF file with a row whose attributes hold a segment without '='
Malformed(file) ==
    /\ file.kind = "gff"
    /\ \E row \in Range(file.rows) :
          /\ row.attributes # NaN
          /\ \E seg \in Range(Split(row.attributes, SEMI)) : EQ \notin Range(seg)

\* C10: with a segment without '=' in the GFF the first call raises, in
\* gff_to_df when the functional annotation could be read, no second call
\* is made and no spreadsheet is written.
MalformedAttributeIsFatal ==
    (calls # <<>> /\ Malformed(disk[gff])) =>
        /\ pc = "aborted"
        /\ Len(calls) = 1
        /\ disk[func_txt].kind = "func" => exc.func = "gff_to_df"
        /\ \A p \in Outfiles : disk[p].kind = "absent" /\ p \notin Range(writes)

MalformedAttributeIsFatalWitness ==
    /\ pc = "aborted"
    /\ exc.func = "gff_to_df"
    /\ Malformed(disk[gff])
    /\ Len(tables_to_annot) >= 2
    /\ \E row \in Range(disk[gff].rows) :
          row.attributes # NaN /\ <<>> \in Range(Split(row.attributes, SEMI))

====
